---- MODULE Spec2Model ----
(***************************************************************************)
(* A model of the dn notification front end (dn-frontend/src): the three   *)
(* pages ListPage, CreatePage and InfoPage and the helpers of api.ts.      *)
(* JavaScript strings are sequences of one-character strings, so that the  *)
(* string functions the pages call (toLowerCase, replace, split, trim,     *)
(* includes, localeCompare, Number, new Date) are computed, not assumed.   *)
(***************************************************************************)
EXTENDS Integers, Sequences, FiniteSets, TLC

VARIABLES
    page,          \* the route that is mounted: "list", "create", "info" or "gone"
    lastEvent,     \* the handler that ran last (trace variable)
    \* ---- ListPage
    rows,          \* useState<ListRow[]>
    listErr,       \* useState<string> err
    contentParam,  \* searchParams.get("content") || ""
    listReq,       \* "none" | "pending" | "done": the single GET /api/list
    \* ---- CreatePage
    info,          \* useState<CreateInfo[]>
    selectedType,  \* useState<string>
    values,        \* useState<any[]>
    origin,        \* per position: the kind of the control the value was entered in
    serverMsg,     \* useState<{variant,text}|null>
    loading,       \* useState<boolean>
    infoReq,       \* "none" | "pending" | "done": the single GET /api/create_info
    createReq,     \* the POST /api/create in flight, or NoReq
    navTo,         \* the target of nav(...), or <<>> when nav was not called
    tz,            \* the environment's getTimezoneOffset() in minutes
    \* ---- InfoPage
    sp,            \* the raw uuid search parameter
    data,          \* useState<InfoResponse|null>
    err,           \* useState<string>
    showDel,       \* useState<boolean>
    delErr,        \* useState<string>
    infoReqs,      \* GET /api/info requests in flight
    delReqs,       \* GET /api/delete requests in flight
    lastLanded     \* the /api/info response that completed last (history)

vars == <<page, lastEvent, rows, listErr, contentParam, listReq,
          info, selectedType, values, origin, serverMsg, loading, infoReq,
          createReq, navTo, tz,
          sp, data, err, showDel, delErr, infoReqs, delReqs, lastLanded>>

listVars   == <<rows, listErr, contentParam, listReq>>
createVars == <<info, selectedType, values, origin, serverMsg, loading,
                infoReq, createReq, navTo, tz>>
infoVars   == <<sp, data, err, showDel, delErr, infoReqs, delReqs, lastLanded>>

----------------------------------------------------------------------------
(* Bounds of the model *)

MaxRows == 3

\* Requests of one kind (info, delete) in flight at once
MaxInFlight == 2

----------------------------------------------------------------------------
(* JavaScript strings *)

UpperSeq == <<"A","B","C","D","E","F","G","H","I","J","K","L","M",
              "N","O","P","Q","R","S","T","U","V","W","X","Y","Z">>

LowerSeq == <<"a","b","c","d","e","f","g","h","i","j","k","l","m",
              "n","o","p","q","r","s","t","u","v","w","x","y","z">>

DigitSeq == <<"0","1","2","3","4","5","6","7","8","9">>

Range(s) == {s[i] : i \in DOMAIN s}

\* The function f as an explicit table, its values computed once
Table(f) == f @@ <<>>

Digits == Range(DigitSeq)

UpperLetters == Range(UpperSeq)

LowerLetters == Range(LowerSeq)

IsDigit(c) == c \in Digits

DigitValueOf == Table([c \in Digits |-> (CHOOSE i \in DOMAIN DigitSeq : DigitSeq[i] = c) - 1])

DigitValue(c) == DigitValueOf[c]

\* \s of a regular expression, and the white space String.prototype.trim strips
WhiteSpace == {" ", "\t", "\n", "\r"}

IsSpace(c) == c \in WhiteSpace

\* \w of a regular expression: [A-Za-z0-9_]
WordChars == UpperLetters \cup LowerLetters \cup Digits \cup {"_"}

IsWordChar(c) == c \in WordChars

LowerOf == Table([c \in UpperLetters |-> LowerSeq[CHOOSE i \in DOMAIN UpperSeq : UpperSeq[i] = c]])

ToLowerChar(c) == IF c \in UpperLetters THEN LowerOf[c] ELSE c

\* String.prototype.toLowerCase
toLowerCase(s) == [i \in DOMAIN s |-> ToLowerChar(s[i])]

\* s.replace(/[^\w\s]/g, " ")
ReplaceNonWord(s) ==
    [i \in DOMAIN s |-> IF IsWordChar(s[i]) \/ IsSpace(s[i]) THEN s[i] ELSE " "]

RECURSIVE SplitFrom(_, _, _, _)
SplitFrom(s, i, cur, out) ==
    IF i > Len(s) THEN Append(out, cur)
    ELSE IF IsSpace(s[i])
         THEN LET rest == {j \in i..Len(s) : ~IsSpace(s[j])}
                  nxt  == IF rest = {} THEN Len(s) + 1
                          ELSE CHOOSE j \in rest : \A k \in rest : j <= k
              IN  SplitFrom(s, nxt, <<>>, Append(out, cur))
         ELSE SplitFrom(s, i + 1, Append(cur, s[i]), out)

\* s.split(/\s+/): the pieces between maximal runs of white space, the empty
\* pieces at either end included
SplitWhitespace(s) == SplitFrom(s, 1, <<>>, <<>>)

\* Array.prototype.filter(Boolean) on strings: the empty string is falsy
FilterBoolean(ss) == SelectSeq(ss, LAMBDA t : t # <<>>)

\* String.prototype.trim
trim(s) ==
    LET keep == {i \in DOMAIN s : ~IsSpace(s[i])}
    IN  IF keep = {} THEN <<>>
        ELSE LET lo == CHOOSE i \in keep : \A k \in keep : i <= k
                 hi == CHOOSE i \in keep : \A k \in keep : k <= i
             IN  SubSeq(s, lo, hi)

\* String.prototype.includes
includes(hay, needle) ==
    \E i \in 0..(Len(hay) - Len(needle)) : SubSeq(hay, i + 1, i + Len(needle)) = needle

LetterRank == Table([c \in LowerLetters |-> CHOOSE i \in DOMAIN LowerSeq : LowerSeq[i] = c])

\* The collation weight String.prototype.localeCompare gives a character:
\* punctuation sorts before digits, digits before letters
CollationRank(c) ==
    IF IsDigit(c) THEN 10 + DigitValue(c)
    ELSE IF c \in UpperLetters \cup LowerLetters
         THEN 20 + LetterRank[ToLowerChar(c)]
         ELSE IF c = "-" THEN 1 ELSE IF c = ":" THEN 2 ELSE 0

RECURSIVE CompareFrom(_, _, _)
CompareFrom(a, b, i) ==
    IF i > Len(a) /\ i > Len(b) THEN 0
    ELSE IF i > Len(a) THEN -1
    ELSE IF i > Len(b) THEN 1
    ELSE IF CollationRank(a[i]) < CollationRank(b[i]) THEN -1
    ELSE IF CollationRank(a[i]) > CollationRank(b[i]) THEN 1
    ELSE CompareFrom(a, b, i + 1)

\* a.localeCompare(b): negative, zero or positive
localeCompare(a, b) == CompareFrom(a, b, 1)

----------------------------------------------------------------------------
(* ListPage *)

\* utc_datetime values the server sends: fixed-width ISO-8601 UTC strings
IsoOf(y, d) == <<"2","0","2",y,"-","0","1","-","0",d,"T","0","0",":","0","0",":","0","0","Z">>

ListDatetimes == {IsoOf("4", "1"), IsoOf("5", "1")}

ListUuids == {"A", "B"}

ListContents ==
    { <<>>,
      <<"I"," ","w","i","l","l"," ","r","u","n"," ","f","a","s","t","e","r">>,
      <<"R","u","n","!","z","_","z">> }

ListQueries ==
    { <<>>, <<" ">>, <<"r","u","n"," ","f","a","s","t">>, <<"!","!">>,
      <<"R","U","N",",","z">> }

\* ListRow (api.ts); name is displayed only and takes no part in list logic
ListRow == [uuid : ListUuids, content : ListContents, utc_datetime : ListDatetimes]

ListResponses == UNION {[1..n -> ListRow] : n \in 0..MaxRows}

\* localeCompare on the utc_datetime values of the model, computed once
LocaleCompareTable ==
    Table([p \in ListDatetimes \X ListDatetimes |-> localeCompare(p[1], p[2])])

\* The comparator of r.sort in ListPage
ListCompare(a, b) == -1 * LocaleCompareTable[<<a.utc_datetime, b.utc_datetime>>]

\* Array.prototype.sort is stable: each element is inserted after the
\* elements that do not compare greater than it
RECURSIVE InsertSorted(_, _)
InsertSorted(r, x) ==
    IF r = <<>> THEN <<x>>
    ELSE IF ListCompare(Head(r), x) <= 0
         THEN <<Head(r)>> \o InsertSorted(Tail(r), x)
         ELSE <<x>> \o r

RECURSIVE SortFrom(_, _, _)
SortFrom(r, i, acc) ==
    IF i > Len(r) THEN acc
    ELSE SortFrom(r, i + 1, InsertSorted(acc, r[i]))

\* (variant: the fetched rows left in fetched order)
SortFetchedUnsorted(r) == r

\* r.sort((a, b) => -1 * a.utc_datetime.localeCompare(b.utc_datetime))
SortFetched(r) == SortFrom(r, 1, <<>>)

\* r.filter((v, ind) => !r.slice(0, ind).some((x) => x.uuid === v.uuid))
\* (variant: the last row of each uuid is kept instead of the first)
DedupKeepLast(r) ==
    LET keep == {i \in DOMAIN r : ~\E j \in (i + 1)..Len(r) : r[j].uuid = r[i].uuid}
        F[i \in 0..Len(r)] ==
            IF i = 0 THEN <<>>
            ELSE IF i \in keep THEN Append(F[i - 1], r[i]) ELSE F[i - 1]
    IN  F[Len(r)]

Dedup(r) ==
    LET keep == {i \in DOMAIN r : ~\E j \in 1..(i - 1) : r[j].uuid = r[i].uuid}
        F[i \in 0..Len(r)] ==
            IF i = 0 THEN <<>>
            ELSE IF i \in keep THEN Append(F[i - 1], r[i]) ELSE F[i - 1]
    IN  F[Len(r)]

\* tokenize of ListPage
tokenize(s) == FilterBoolean(SplitWhitespace(ReplaceNonWord(toLowerCase(s))))

\* tokenize on the contents and queries of the model, computed once
TokenizeTable == Table([s \in ListContents \cup ListQueries |-> tokenize(s)])

\* The predicate of l.filter in ListPage
\* (variant: some query word, instead of every one, has to be found)
RowMatchesAny(v, param) ==
    IF v.content = <<>> THEN FALSE
    ELSE LET wordsInParam   == TokenizeTable[param]
             wordsInContent == TokenizeTable[v.content]
         IN  \E p \in DOMAIN wordsInParam :
               \E c \in DOMAIN wordsInContent :
                 includes(wordsInContent[c], wordsInParam[p])

RowMatches(v, param) ==
    IF v.content = <<>> THEN FALSE
    ELSE LET wordsInParam   == TokenizeTable[param]
             wordsInContent == TokenizeTable[v.content]
         IN  \A p \in DOMAIN wordsInParam :
               \E c \in DOMAIN wordsInContent :
                 includes(wordsInContent[c], wordsInParam[p])

\* The value of useMemo `sorted` in ListPage
Sorted(rs, param) ==
    LET r == SortFetched(rs)
        l == Dedup(r)
    IN  IF trim(param) # <<>>
        THEN SelectSeq(l, LAMBDA v : RowMatches(v, param))
        ELSE l

sorted == Sorted(rows, contentParam)

\* useEffect(..., []) of ListPage: setErr(""), then GET /api/list
ListEffect ==
    /\ page = "list"
    /\ listReq = "none"
    /\ listErr' = <<>>
    /\ listReq' = "pending"
    /\ lastEvent' = "listEffect"
    /\ UNCHANGED <<page, rows, contentParam, createVars, infoVars>>

\* await apiGet resolved: setRows(data)
ListResponseOk ==
    /\ page = "list"
    /\ listReq = "pending"
    /\ \E d \in ListResponses : rows' = d
    /\ listReq' = "done"
    /\ lastEvent' = "listOk"
    /\ UNCHANGED <<page, listErr, contentParam, createVars, infoVars>>

\* e.message of the Error apiGet and apiPost throw: `HTTP ${r.status}`
Http(a, b, c) == <<"H","T","T","P"," ",a,b,c>>

HttpErrors == {Http("5","0","0"), Http("4","0","4")}

CreateHttpErrors == {Http("5","0","0")}

DeleteHttpErrors == {Http("5","0","0")}

\* await apiGet threw: setErr(e.message)
ListResponseFail ==
    /\ page = "list"
    /\ listReq = "pending"
    /\ \E m \in HttpErrors : listErr' = m
    /\ listReq' = "done"
    /\ lastEvent' = "listFail"
    /\ UNCHANGED <<page, rows, contentParam, createVars, infoVars>>

\* onChange of the filter control: the content search parameter is set to
\* the typed text, or deleted when the text is blank
SetContentParam ==
    /\ page = "list"
    /\ \E v \in ListQueries :
         contentParam' = IF trim(v) # <<>> THEN v ELSE <<>>
    /\ lastEvent' = "setContent"
    /\ UNCHANGED <<page, rows, listErr, listReq, createVars, infoVars>>

NextList == ListEffect \/ ListResponseOk \/ ListResponseFail \/ SetContentParam

----------------------------------------------------------------------------
(* JavaScript values: strings, booleans and numbers *)

\* A number: NaN, +Infinity, -Infinity, or the finite decimal m / 10^e
\* (e is the least such exponent, so equal numbers are equal records)
NaN == [k |-> "nan", m |-> 0, e |-> 0]

PosInfinity == [k |-> "inf", m |-> 0, e |-> 0]

NegInfinity == [k |-> "-inf", m |-> 0, e |-> 0]

RECURSIVE Normal(_, _)
Normal(m, e) ==
    IF e > 0 /\ m % 10 = 0 THEN Normal(m \div 10, e - 1)
    ELSE [k |-> "fin", m |-> m, e |-> e]

Finite(m, e) == Normal(m, e)

JsStr(s) == [t |-> "string", s |-> s, b |-> FALSE, n |-> NaN]

JsBool(b) == [t |-> "boolean", s |-> <<>>, b |-> b, n |-> NaN]

JsNum(n) == [t |-> "number", s |-> <<>>, b |-> FALSE, n |-> n]

RECURSIVE DigitsValue(_)
DigitsValue(ds) ==
    IF ds = <<>> THEN 0
    ELSE 10 * DigitsValue(SubSeq(ds, 1, Len(ds) - 1)) + DigitValue(ds[Len(ds)])

AllDigits(ds) == \A i \in DOMAIN ds : IsDigit(ds[i])

InfinityLiteral == <<"I","n","f","i","n","i","t","y">>

\* StringToNumber of ECMAScript for the decimal literals (no exponent, no
\* radix prefix): white space is stripped, the empty string is 0, an
\* optionally signed Infinity is infinite, an optionally signed
\* digits[.digits] or .digits is that decimal, anything else is NaN
StringToNumber(str) ==
    LET s      == trim(str)
        signed == s # <<>> /\ s[1] \in {"+", "-"}
        neg    == s # <<>> /\ s[1] = "-"
        body   == IF signed THEN Tail(s) ELSE s
        dots   == {i \in DOMAIN body : body[i] = "."}
        dot    == IF dots = {} THEN Len(body) + 1
                  ELSE CHOOSE i \in dots : \A j \in dots : i <= j
        ip     == SubSeq(body, 1, dot - 1)
        fp     == SubSeq(body, dot + 1, Len(body))
        mag    == DigitsValue(ip \o fp)
    IN  IF s = <<>> THEN Finite(0, 0)
        ELSE IF body = InfinityLiteral THEN (IF neg THEN NegInfinity ELSE PosInfinity)
        ELSE IF AllDigits(ip) /\ AllDigits(fp) /\ Len(ip) + Len(fp) > 0
             THEN Finite(IF neg THEN -mag ELSE mag, Len(fp))
             ELSE NaN

\* Number(v)
Number(v) ==
    IF v.t = "string" THEN StringToNumber(v.s)
    ELSE IF v.t = "boolean" THEN (IF v.b THEN Finite(1, 0) ELSE Finite(0, 0))
    ELSE v.n

\* Number.isNaN
isNaN(n) == n.k = "nan"

\* Number.isInteger
isInteger(n) == n.k = "fin" /\ n.e = 0

\* String(v) for a string or a boolean
String(v) ==
    IF v.t = "string" THEN v.s
    ELSE IF v.b THEN <<"t","r","u","e">> ELSE <<"f","a","l","s","e">>

\* Boolean(v) for a string or a boolean
Boolean(v) == IF v.t = "string" THEN v.s # <<>> ELSE v.b

\* v || ""
OrEmpty(v) == IF Boolean(v) THEN v ELSE JsStr(<<>>)

----------------------------------------------------------------------------
(* api.ts: utcIsoFromDatetimeLocal *)

TzOffsets == {-60, 300}

Num2(ds) == DigitsValue(ds)

IsLeap(y) == (y % 4 = 0 /\ y % 100 # 0) \/ y % 400 = 0

DaysInMonth(y, mo) ==
    IF mo = 2 THEN (IF IsLeap(y) THEN 29 ELSE 28)
    ELSE IF mo \in {4, 6, 9, 11} THEN 30 ELSE 31

\* The date-time form of the ECMAScript date string format without a zone,
\* "YYYY-MM-DDTHH:mm", which new Date reads as local time
IsLocalIso(s) ==
    /\ Len(s) = 16
    /\ s[5] = "-" /\ s[8] = "-" /\ s[11] = "T" /\ s[14] = ":"
    /\ \A i \in {1, 2, 3, 4, 6, 7, 9, 10, 12, 13, 15, 16} : IsDigit(s[i])
    /\ Num2(SubSeq(s, 6, 7)) \in 1..12
    /\ Num2(SubSeq(s, 9, 10)) \in 1..DaysInMonth(Num2(SubSeq(s, 1, 4)), Num2(SubSeq(s, 6, 7)))
    /\ Num2(SubSeq(s, 12, 13)) \in 0..23
    /\ Num2(SubSeq(s, 15, 16)) \in 0..59

Pad2(n) == <<DigitSeq[((n \div 10) % 10) + 1], DigitSeq[(n % 10) + 1]>>

Pad4(n) == Pad2(n \div 100) \o Pad2(n % 100)

\* Date.prototype.toISOString of the local time s read under offset off
\* (getTimezoneOffset: UTC minus local, in minutes; less than a day)
ToIsoString(s, off) ==
    LET y    == Num2(SubSeq(s, 1, 4))
        mo   == Num2(SubSeq(s, 6, 7))
        d    == Num2(SubSeq(s, 9, 10))
        mins == Num2(SubSeq(s, 12, 13)) * 60 + Num2(SubSeq(s, 15, 16)) + off
        sh   == IF mins < 0 THEN -1 ELSE IF mins >= 1440 THEN 1 ELSE 0
        t    == mins - sh * 1440
        d1   == d + sh
        pmo  == IF mo = 1 THEN 12 ELSE mo - 1
        py   == IF mo = 1 THEN y - 1 ELSE y
        date == IF d1 < 1 THEN <<py, pmo, DaysInMonth(py, pmo)>>
                ELSE IF d1 > DaysInMonth(y, mo)
                     THEN (IF mo = 12 THEN <<y + 1, 1, 1>> ELSE <<y, mo + 1, 1>>)
                     ELSE <<y, mo, d1>>
    IN  Pad4(date[1]) \o <<"-">> \o Pad2(date[2]) \o <<"-">> \o Pad2(date[3])
        \o <<"T">> \o Pad2(t \div 60) \o <<":">> \o Pad2(t % 60)
        \o <<":","0","0",".","0","0","0","Z">>

\* What the date parser leaves to the implementation: a string that is not
\* in the date string format but holds a digit may or may not be read as a date
ImplementationDate == <<"i","m","p","l","e","m","e","n","t","a","t","i","o","n"," ","d","a","t","e">>

Throws == [threw |-> TRUE, iso |-> <<>>]

Returns(iso) == [threw |-> FALSE, iso |-> iso]

\* utcIsoFromDatetimeLocal(value): the outcomes of new Date(value).toISOString(),
\* which throws a RangeError on an Invalid Date
utcIsoFromDatetimeLocal(value, off) ==
    IF IsLocalIso(value) THEN {Returns(ToIsoString(value, off))}
    ELSE IF \E i \in DOMAIN value : IsDigit(value[i])
         THEN {Throws, Returns(ImplementationDate)}
         ELSE {Throws}

----------------------------------------------------------------------------
(* CreatePage *)

Arg(kind, label) == [type |-> kind, label |-> label]

\* The notification types GET /api/create_info answers with (desc is
\* displayed only)
Catalogue ==
    << [type |-> "alpha",
        arguments |-> << Arg("TEXT", <<"T","i","t","l","e">>),
                         Arg("BOOLEAN", <<"F","l","a","g">>) >>],
       [type |-> "beta",
        arguments |-> << Arg("DATETIME", <<"W","h","e","n">>),
                         Arg("INTEGER", <<"C","o","u","n","t">>) >>],
       [type |-> "gamma",
        arguments |-> << Arg("FLOAT", <<"R","a","t","i","o">>),
                         Arg("TEXTAREA", <<"B","o","d","y">>) >>] >>

CreateInfoResponses == {Catalogue, <<>>}

\* What a text, number or datetime-local control can hand to setAt
RawStrings ==
    { <<>>, <<" ">>, <<"3">>, <<"-","7">>, <<"3",".","5">>, <<"a","b","c">>,
      <<"I","n","f","i","n","i","t","y">>,
      <<"2","0","2","6","-","0","1","-","0","1","T","0","0",":","3","0">> }

ServerMessages == {<<"d","u","p","l","i","c","a","t","e">>}

NewUuids == {<<"U","1">>}

NoMsg == [variant |-> "none", text |-> <<>>]

Danger(text) == [variant |-> "danger", text |-> text]

NoReq == [type |-> "", arguments |-> <<>>, sent |-> FALSE]

NoSchema == [type |-> "", arguments |-> <<>>]

\* info.find((t) => t.type === selectedType) || null
Find(inf, ty) ==
    LET m == {i \in DOMAIN inf : inf[i].type = ty}
    IN  IF m = {} THEN NoSchema ELSE inf[CHOOSE i \in m : \A j \in m : i <= j]

HasType(inf, ty) == \E i \in DOMAIN inf : inf[i].type = ty

selected == Find(info, selectedType)

hasSelected == HasType(info, selectedType)

\* The body of the schema-switch effect: a fresh array of the schema's length,
\* filled with "", the old values copied by position
Carry(prev, n, blank) ==
    [i \in 1..n |-> IF i <= Len(prev) THEN prev[i] ELSE blank]

Valid == [err |-> FALSE, text |-> <<>>]

Invalid(text) == [err |-> TRUE, text |-> text]

MustBeInteger == <<" ","m","u","s","t"," ","b","e"," ","a","n"," ","i","n","t","e","g","e","r",".">>

MustBeNumber == <<" ","m","u","s","t"," ","b","e"," ","a"," ","n","u","m","b","e","r",".">>

IsRequired == <<" ","i","s"," ","r","e","q","u","i","r","e","d",".">>

NoTypeSelected == <<"N","o"," ","t","y","p","e"," ","s","e","l","e","c","t","e","d",".">>

\* One turn of the loop of clientValidate: the check of position i
PositionError(spec, v) ==
    IF spec.type = "BOOLEAN" THEN Valid
    ELSE IF spec.type = "INTEGER"
    THEN IF (v.t = "string" /\ v.s = <<>>) \/ isNaN(Number(v))
         THEN Invalid(spec.label \o MustBeInteger)
         ELSE IF ~isInteger(Number(v))
              THEN Invalid(spec.label \o MustBeInteger)
              ELSE Valid
    ELSE IF spec.type = "FLOAT"
    THEN IF (v.t = "string" /\ v.s = <<>>) \/ isNaN(Number(v))
         THEN Invalid(spec.label \o MustBeNumber)
         ELSE Valid
    ELSE IF trim(String(OrEmpty(v))) = <<>>
         THEN Invalid(spec.label \o IsRequired)
         ELSE Valid

RECURSIVE ValidateFrom(_, _, _)
ValidateFrom(sel, vals, i) ==
    IF i > Len(sel.arguments) THEN Valid
    ELSE IF PositionError(sel.arguments[i], vals[i]).err
         THEN PositionError(sel.arguments[i], vals[i])
         ELSE ValidateFrom(sel, vals, i + 1)

\* (variant: the loop runs on and the error of the last invalid position wins)
RECURSIVE ValidateLastFrom(_, _, _, _)
ValidateLastFrom(sel, vals, i, found) ==
    IF i > Len(sel.arguments) THEN found
    ELSE IF PositionError(sel.arguments[i], vals[i]).err
         THEN ValidateLastFrom(sel, vals, i + 1, PositionError(sel.arguments[i], vals[i]))
         ELSE ValidateLastFrom(sel, vals, i + 1, found)

ClientValidateLast(inf, ty, vals) ==
    IF ~HasType(inf, ty) THEN Invalid(NoTypeSelected)
    ELSE ValidateLastFrom(Find(inf, ty), vals, 1, Valid)

\* clientValidate(): the first error in schema order, or null
ClientValidate(inf, ty, vals) ==
    IF ~HasType(inf, ty) THEN Invalid(NoTypeSelected)
    ELSE ValidateFrom(Find(inf, ty), vals, 1)

clientValidate == ClientValidate(info, selectedType, values)

\* The switch of onCreate: the typed argument of one position, or the
\* exception utcIsoFromDatetimeLocal throws
Coerce(spec, v, off) ==
    IF spec.type = "DATETIME"
    THEN {[threw |-> o.threw, val |-> JsStr(o.iso)] :
            o \in utcIsoFromDatetimeLocal(String(v), off)}
    ELSE IF spec.type \in {"INTEGER", "FLOAT"}
    THEN {[threw |-> FALSE, val |-> JsNum(Number(v))]}
    ELSE IF spec.type = "BOOLEAN"
    THEN {[threw |-> FALSE, val |-> JsBool(Boolean(v))]}
    ELSE {[threw |-> FALSE, val |-> JsStr(String(v))]}

\* The outcomes of selected.arguments.map(...)
BuildArgs(sel, vals, off) ==
    {f \in [DOMAIN sel.arguments -> UNION {Coerce(sel.arguments[i], vals[i], off) :
                                             i \in DOMAIN sel.arguments}] :
        \A i \in DOMAIN sel.arguments : f[i] \in Coerce(sel.arguments[i], vals[i], off)}

\* useEffect(..., []) of CreatePage: GET /api/create_info
CreateEffect ==
    /\ page = "create"
    /\ infoReq = "none"
    /\ infoReq' = "pending"
    /\ lastEvent' = "createEffect"
    /\ UNCHANGED <<page, info, selectedType, values, origin, serverMsg, loading,
                   createReq, navTo, tz, listVars, infoVars>>

\* apiGet resolved: setInfo, the first type selected and its values blank;
\* the selectedType effect then runs on the new selection
CreateInfoOk ==
    /\ page = "create"
    /\ infoReq = "pending"
    /\ \E d \in CreateInfoResponses :
         /\ info' = d
         /\ IF Len(d) > 0
            THEN /\ selectedType' = d[1].type
                 /\ values' = Carry([i \in 1..Len(d[1].arguments) |-> JsStr(<<>>)],
                                    Len(d[1].arguments), JsStr(<<>>))
                 /\ origin' = [i \in 1..Len(d[1].arguments) |-> "NONE"]
            ELSE UNCHANGED <<selectedType, values, origin>>
    /\ infoReq' = "done"
    /\ lastEvent' = "createInfoOk"
    /\ UNCHANGED <<page, serverMsg, loading, createReq, navTo, tz, listVars, infoVars>>

\* apiGet threw: setServerMsg({danger, e.message})
CreateInfoFail ==
    /\ page = "create"
    /\ infoReq = "pending"
    /\ \E m \in CreateHttpErrors : serverMsg' = Danger(m)
    /\ infoReq' = "done"
    /\ lastEvent' = "createInfoFail"
    /\ UNCHANGED <<page, info, selectedType, values, origin, loading, createReq,
                   navTo, tz, listVars, infoVars>>

\* onChange of the type select: setSelectedType, then the effect on
\* [selectedType] resizes values
SelectType ==
    /\ page = "create"
    /\ \E i \in DOMAIN info :
         /\ info[i].type # selectedType
         /\ selectedType' = info[i].type
         /\ values' = Carry(values, Len(Find(info, info[i].type).arguments), JsStr(<<>>))
         /\ origin' = Carry(origin, Len(Find(info, info[i].type).arguments), "NONE")
    /\ lastEvent' = "selectType"
    /\ UNCHANGED <<page, info, serverMsg, loading, infoReq, createReq, navTo, tz,
                   listVars, infoVars>>

\* setAt(i, v) from the control of position i: e.target.checked of a checkbox,
\* e.target.value of any other control
SetAt ==
    /\ page = "create"
    /\ hasSelected
    /\ \E i \in DOMAIN selected.arguments :
         \E v \in IF selected.arguments[i].type = "BOOLEAN"
                  THEN {JsBool(TRUE), JsBool(FALSE)}
                  ELSE {JsStr(r) : r \in RawStrings} :
           /\ values' = [values EXCEPT ![i] = v]
           /\ origin' = [origin EXCEPT ![i] = selected.arguments[i].type]
    /\ lastEvent' = "setAt"
    /\ UNCHANGED <<page, info, selectedType, serverMsg, loading, infoReq, createReq,
                   navTo, tz, listVars, infoVars>>

\* onCreate up to its await: validation, coercion, the POST
OnCreate ==
    /\ page = "create"
    /\ ~loading
    /\ hasSelected
    /\ IF clientValidate.err /\ clientValidate.text # <<>>
       THEN /\ serverMsg' = Danger(clientValidate.text)
            /\ UNCHANGED <<loading, createReq>>
       ELSE \E args \in BuildArgs(selected, values, tz) :
              IF \E i \in DOMAIN args : args[i].threw
              THEN \* the exception leaves onCreate before the try block
                   /\ serverMsg' = NoMsg
                   /\ UNCHANGED <<loading, createReq>>
              ELSE /\ serverMsg' = NoMsg
                   /\ loading' = TRUE
                   /\ createReq' = [type |-> selectedType,
                                    arguments |-> [i \in DOMAIN args |-> args[i].val],
                                    sent |-> TRUE]
    /\ lastEvent' = "onCreate"
    /\ UNCHANGED <<page, info, selectedType, values, origin, infoReq, navTo, tz,
                   listVars, infoVars>>

\* apiPost resolved with ok: nav to the info view; finally setLoading(false)
CreateResponseOk ==
    /\ page = "create"
    /\ createReq.sent
    /\ \E u \in NewUuids : navTo' = u
    /\ page' = "gone"
    /\ loading' = FALSE
    /\ createReq' = NoReq
    /\ lastEvent' = "createOk"
    /\ UNCHANGED <<info, selectedType, values, origin, serverMsg, infoReq, tz,
                   listVars, infoVars>>

\* apiPost resolved with ok = false: the server's message is shown
CreateResponseNotOk ==
    /\ page = "create"
    /\ createReq.sent
    /\ \E m \in ServerMessages : serverMsg' = Danger(m)
    /\ loading' = FALSE
    /\ createReq' = NoReq
    /\ lastEvent' = "createNotOk"
    /\ UNCHANGED <<page, info, selectedType, values, origin, infoReq, navTo, tz,
                   listVars, infoVars>>

\* apiPost threw: e.message is shown
CreateResponseThrows ==
    /\ page = "create"
    /\ createReq.sent
    /\ \E m \in CreateHttpErrors : serverMsg' = Danger(m)
    /\ loading' = FALSE
    /\ createReq' = NoReq
    /\ lastEvent' = "createThrew"
    /\ UNCHANGED <<page, info, selectedType, values, origin, infoReq, navTo, tz,
                   listVars, infoVars>>

NextCreate ==
    \/ CreateEffect \/ CreateInfoOk \/ CreateInfoFail \/ SelectType \/ SetAt
    \/ OnCreate \/ CreateResponseOk \/ CreateResponseNotOk \/ CreateResponseThrows

----------------------------------------------------------------------------
(* InfoPage *)

\* Values of the uuid search parameter (absent reads as "")
ParamValues == {<<>>, <<"A">>, <<" ","A">>, <<"B">>}

\* message of a delete response with ok = false (<<>>: no message)
DeleteMessages == {<<>>, <<"i","n"," ","u","s","e">>}

MissingUuid ==
    <<"M","i","s","s","i","n","g"," ","r","e","q","u","i","r","e","d"," ","?",
      "u","u","i","d","=",".",".","."," ","s","e","a","r","c","h"," ","p","a","r","a","m",".">>

DeleteFailed == <<"D","e","l","e","t","e"," ","f","a","i","l","e","d",".">>

NoData == [loaded |-> FALSE, uuid |-> <<>>]

\* An InfoResponse: the server answers with the notification asked for
InfoResponse(u) == [loaded |-> TRUE, uuid |-> u]

NoneLanded == [landed |-> FALSE, ok |-> FALSE, uuid |-> <<>>, msg |-> <<>>]

Landed(ok, u, m) == [landed |-> TRUE, ok |-> ok, uuid |-> u, msg |-> m]

\* s without its i-th element
RemoveAt(s, i) == SubSeq(s, 1, i - 1) \o SubSeq(s, i + 1, Len(s))

\* const uuid = (sp.get("uuid") || "").trim()
uuid == trim(sp)

\* The page body is rendered: neither the error alert nor "Loading..."
Rendered == err = <<>> /\ data.loaded

\* The confirmation dialog is on screen
ModalVisible == Rendered /\ showDel

\* The body of useEffect(..., [uuid]) for the uuid u
InfoEffectBody(u) ==
    IF u = <<>>
    THEN /\ err' = MissingUuid
         /\ UNCHANGED infoReqs
    ELSE /\ Len(infoReqs) < MaxInFlight
         /\ err' = <<>>
         /\ infoReqs' = Append(infoReqs, u)

\* The effect's first run, after the page is mounted
InfoEffect ==
    /\ page = "info"
    /\ lastEvent = "mount"
    /\ InfoEffectBody(uuid)
    /\ lastEvent' = "infoEffect"
    /\ UNCHANGED <<page, sp, data, showDel, delErr, delReqs, lastLanded,
                   listVars, createVars>>

\* The search parameter changes while the page stays mounted; the effect
\* runs again when the trimmed uuid differs
ChangeParam ==
    /\ page = "info"
    /\ lastEvent # "mount"
    /\ \E p \in ParamValues \ {sp} :
         /\ sp' = p
         /\ IF trim(p) # uuid
            THEN InfoEffectBody(trim(p))
            ELSE UNCHANGED <<err, infoReqs>>
    /\ lastEvent' = "changeParam"
    /\ UNCHANGED <<page, data, showDel, delErr, delReqs, lastLanded,
                   listVars, createVars>>

\* await apiGet resolved: setData(resp); err is left as it is
InfoResponseOk ==
    /\ page = "info"
    /\ \E i \in DOMAIN infoReqs :
         /\ infoReqs' = RemoveAt(infoReqs, i)
         /\ data' = InfoResponse(infoReqs[i])
         /\ lastLanded' = Landed(TRUE, infoReqs[i], <<>>)
    /\ lastEvent' = "infoOk"
    /\ UNCHANGED <<page, sp, err, showDel, delErr, delReqs,
                   listVars, createVars>>

\* await apiGet threw: setErr(e.message)
InfoResponseFail ==
    /\ page = "info"
    /\ \E i \in DOMAIN infoReqs :
         \E m \in HttpErrors :
           /\ infoReqs' = RemoveAt(infoReqs, i)
           /\ err' = m
           /\ lastLanded' = Landed(FALSE, infoReqs[i], m)
    /\ lastEvent' = "infoFail"
    /\ UNCHANGED <<page, sp, data, showDel, delErr, delReqs, listVars, createVars>>

\* onClick of the Delete button: setShowDel(true)
ClickDelete ==
    /\ page = "info"
    /\ Rendered
    /\ showDel' = TRUE
    /\ lastEvent' = "clickDelete"
    /\ UNCHANGED <<page, sp, data, err, delErr, infoReqs, delReqs, lastLanded, listVars, createVars>>

\* onHide of the dialog and onClick of Cancel: setShowDel(false)
HideModal ==
    /\ page = "info"
    /\ ModalVisible
    /\ showDel' = FALSE
    /\ lastEvent' = "hideModal"
    /\ UNCHANGED <<page, sp, data, err, delErr, infoReqs, delReqs, lastLanded, listVars, createVars>>

\* (variant: the request goes out from the Delete button, without the dialog)
DoDeleteWithoutDialog ==
    /\ page = "info"
    /\ Rendered
    /\ Len(delReqs) < MaxInFlight
    /\ delErr' = <<>>
    /\ delReqs' = Append(delReqs, uuid)
    /\ lastEvent' = "doDelete"
    /\ UNCHANGED <<page, sp, data, err, showDel, infoReqs, lastLanded, listVars, createVars>>

\* doDelete up to its await, from onClick of "Yes, delete" in the dialog
DoDelete ==
    /\ page = "info"
    /\ ModalVisible
    /\ Len(delReqs) < MaxInFlight
    /\ delErr' = <<>>
    /\ delReqs' = Append(delReqs, uuid)
    /\ lastEvent' = "doDelete"
    /\ UNCHANGED <<page, sp, data, err, showDel, infoReqs, lastLanded, listVars, createVars>>

\* resp.ok: setShowDel(false) and nav("/"), which unmounts the page
DeleteResponseOk ==
    /\ page = "info"
    /\ \E i \in DOMAIN delReqs : delReqs' = RemoveAt(delReqs, i)
    /\ showDel' = FALSE
    /\ page' = "gone"
    /\ lastEvent' = "deleteOk"
    /\ UNCHANGED <<sp, data, err, delErr, infoReqs, lastLanded,
                   listVars, createVars>>

\* !resp?.ok: setDelErr(resp?.message || "Delete failed.")
DeleteResponseNotOk ==
    /\ page = "info"
    /\ \E i \in DOMAIN delReqs :
         \E m \in DeleteMessages :
           /\ delReqs' = RemoveAt(delReqs, i)
           /\ delErr' = IF m # <<>> THEN m ELSE DeleteFailed
    /\ lastEvent' = "deleteNotOk"
    /\ UNCHANGED <<page, sp, data, err, showDel, infoReqs, lastLanded, listVars, createVars>>

\* apiGet threw: setDelErr(e.message)
DeleteResponseThrows ==
    /\ page = "info"
    /\ \E i \in DOMAIN delReqs :
         \E m \in DeleteHttpErrors :
           /\ delReqs' = RemoveAt(delReqs, i)
           /\ delErr' = m
    /\ lastEvent' = "deleteThrew"
    /\ UNCHANGED <<page, sp, data, err, showDel, infoReqs, lastLanded, listVars, createVars>>

NextInfo ==
    \/ InfoEffect \/ ChangeParam \/ InfoResponseOk \/ InfoResponseFail
    \/ ClickDelete \/ HideModal \/ DoDelete
    \/ DeleteResponseOk \/ DeleteResponseNotOk \/ DeleteResponseThrows

----------------------------------------------------------------------------
(* Specifications *)

\* Every useState at its initial value, no request in flight
Constructed ==
    /\ lastEvent = "mount"
    /\ rows = <<>> /\ listErr = <<>> /\ listReq = "none"
    /\ info = <<>> /\ selectedType = "" /\ values = <<>> /\ origin = <<>>
    /\ serverMsg = NoMsg /\ loading = FALSE /\ infoReq = "none"
    /\ createReq = NoReq /\ navTo = <<>>
    /\ data = NoData /\ err = <<>> /\ showDel = FALSE /\ delErr = <<>>
    /\ infoReqs = <<>> /\ delReqs = <<>>
    /\ lastLanded = NoneLanded

InitList ==
    /\ Constructed
    /\ page = "list"
    /\ contentParam \in ListQueries
    /\ tz = 0
    /\ sp = <<>>

InitCreate ==
    /\ Constructed
    /\ page = "create"
    /\ contentParam = <<>>
    /\ tz \in TzOffsets
    /\ sp = <<>>

InitInfo ==
    /\ Constructed
    /\ page = "info"
    /\ contentParam = <<>>
    /\ tz = 0
    /\ sp \in ParamValues

Init == InitList \/ InitCreate \/ InitInfo

Next == NextList \/ NextCreate \/ NextInfo

Spec == Init /\ [][Next]_vars

SpecList == InitList /\ [][NextList]_vars

SpecCreate == InitCreate /\ [][NextCreate]_vars

SpecInfo == InitInfo /\ [][NextInfo]_vars

----------------------------------------------------------------------------
(* Vocabulary of the properties *)

UpperCode == Table([c \in UpperLetters |-> 64 + (CHOOSE i \in DOMAIN UpperSeq : UpperSeq[i] = c)])

\* The UTF-16 code unit of a character of the ISO-8601 alphabet
CodeUnit(c) ==
    IF IsDigit(c) THEN 48 + DigitValue(c)
    ELSE IF c \in UpperLetters THEN UpperCode[c]
         ELSE IF c = "-" THEN 45 ELSE IF c = "." THEN 46 ELSE IF c = ":" THEN 58 ELSE 0

\* a >= b in string order: at the first position where they differ a has
\* the greater code unit, or b is a prefix of a
CodeUnitGeq(a, b) ==
    LET diff == {i \in 1..Len(b) : i > Len(a) \/ a[i] # b[i]}
    IN  \/ diff = {}
        \/ LET i == CHOOSE k \in diff : \A j \in diff : k <= j
           IN  i <= Len(a) /\ CodeUnit(a[i]) > CodeUnit(b[i])

StringGeqTable == Table([p \in ListDatetimes \X ListDatetimes |-> CodeUnitGeq(p[1], p[2])])

StringGeq(a, b) == StringGeqTable[<<a, b>>]

\* The deduplicated list the content filter is applied to
Deduplicated == Dedup(SortFetched(rows))

InList(v, l) == \E k \in DOMAIN l : l[k] = v

IndexesOf(u) == {i \in DOMAIN rows : rows[i].uuid = u}

FirstIndexOf(u) == CHOOSE i \in IndexesOf(u) : \A j \in IndexesOf(u) : i <= j

BlankQuery == \A i \in DOMAIN contentParam : IsSpace(contentParam[i])

\* The tokens of a string: the maximal runs of word characters of its
\* lower-cased form
TokensOf(str) ==
    LET s      == [i \in DOMAIN str |-> ToLowerChar(str[i])]
        starts == {i \in DOMAIN s :
                     IsWordChar(s[i]) /\ (i = 1 \/ ~IsWordChar(s[i - 1]))}
        EndOf(i) == CHOOSE j \in i..Len(s) :
                      /\ \A k \in i..j : IsWordChar(s[k])
                      /\ (j = Len(s) \/ ~IsWordChar(s[j + 1]))
    IN  {SubSeq(s, i, EndOf(i)) : i \in starts}

IsSubstring(needle, hay) ==
    \E i \in 1..(Len(hay) + 1) :
      /\ i + Len(needle) - 1 <= Len(hay)
      /\ \A k \in 1..Len(needle) : hay[i + k - 1] = needle[k]

TokensTable == Table([s \in ListContents \cup ListQueries |-> TokensOf(s)])

\* Every query token is a substring of at least one content token
TokensMatch(query, content) ==
    \A q \in TokensTable[query] : \E c \in TokensTable[content] : IsSubstring(q, c)

----------------------------------------------------------------------------
(* ListPage properties, under SpecList *)

\* C1 as stated: every row of the list is the row at the first index of its
\* uuid in the fetched order, and with a blank query every fetched uuid is
\* in the list.
C1_KeepsFirstFetched ==
    LET out == sorted
    IN  /\ \A k \in DOMAIN out : out[k] = rows[FirstIndexOf(out[k].uuid)]
        /\ BlankQuery =>
             \A i \in DOMAIN rows : \E k \in DOMAIN out : out[k].uuid = rows[i].uuid

\* C1 amended: the list holds at most one row per uuid; the row kept for a
\* uuid is the first one in descending utc_datetime order, that is a row of
\* that uuid with the greatest utc_datetime and, among the rows that share
\* that utc_datetime, the one fetched first; with a blank query every
\* fetched uuid is in the list.
C1_KeepsLatestPerUuid ==
    LET out == sorted
    IN  /\ \A k \in DOMAIN out :
             LET v    == out[k]
                 same == IndexesOf(v.uuid)
                 top  == {i \in same : rows[i].utc_datetime = v.utc_datetime}
             IN  /\ \A i \in same : StringGeq(v.utc_datetime, rows[i].utc_datetime)
                 /\ top # {}
                 /\ v = rows[CHOOSE i \in top : \A j \in top : i <= j]
        /\ \A k, m \in DOMAIN out : out[k].uuid = out[m].uuid => k = m
        /\ BlankQuery =>
             \A i \in DOMAIN rows : \E k \in DOMAIN out : out[k].uuid = rows[i].uuid

\* C1 witness: a later fetched row of a uuid has a greater utc_datetime
\* than the first fetched row of that uuid, and that later row is listed.
C1_Witness ==
    /\ lastEvent = "listOk"
    /\ \E i, j \in DOMAIN rows :
         /\ i < j
         /\ rows[i].uuid = rows[j].uuid
         /\ i = FirstIndexOf(rows[i].uuid)
         /\ rows[i].utc_datetime # rows[j].utc_datetime
         /\ StringGeq(rows[j].utc_datetime, rows[i].utc_datetime)
         /\ InList(rows[j], sorted)
         /\ ~InList(rows[i], sorted)

\* C2 as stated: with a blank query the deduplicated rows are all retained;
\* otherwise a row is retained iff every query token is a substring of a
\* content token, and a row with empty content is never retained.
C2_RetainedIffTokensMatch ==
    LET out == sorted
        l   == Deduplicated
    IN  IF BlankQuery THEN out = l
        ELSE \A k \in DOMAIN l :
               /\ InList(l[k], out) <=> TokensMatch(contentParam, l[k].content)
               /\ l[k].content = <<>> => ~InList(l[k], out)

\* C2 amended: with a blank query the deduplicated rows are all retained;
\* otherwise a row is retained iff its content is not empty and every query
\* token is a substring of a content token (a non-blank query without any
\* token, such as "!!", retains exactly the rows with content).
C2_RetainedIffContentAndTokensMatch ==
    LET out == sorted
        l   == Deduplicated
    IN  IF BlankQuery THEN out = l
        ELSE /\ \A k \in DOMAIN l :
                  InList(l[k], out) <=>
                    (l[k].content # <<>> /\ TokensMatch(contentParam, l[k].content))
             /\ \A k \in DOMAIN out : InList(out[k], l)

\* C2 witness: a query with tokens retains one row and drops another row
\* that has content.
C2_Witness ==
    /\ lastEvent = "listOk"
    /\ TokensOf(contentParam) # {}
    /\ LET out == sorted
           l   == Deduplicated
       IN  /\ \E k \in DOMAIN l : InList(l[k], out)
           /\ \E k \in DOMAIN l : l[k].content # <<>> /\ ~InList(l[k], out)

\* C3: the list is in descending string order of utc_datetime: of two
\* adjacent rows the earlier one's utc_datetime is >= the later one's.
C3_SortedDescending ==
    LET out == sorted
    IN  \A k \in 1..(Len(out) - 1) :
          StringGeq(out[k].utc_datetime, out[k + 1].utc_datetime)

\* C3 witness: rows fetched in ascending order are listed, several of them,
\* with different utc_datetimes.
C3_Witness ==
    /\ lastEvent = "listOk"
    /\ Len(rows) >= 2
    /\ rows[1].utc_datetime # rows[2].utc_datetime
    /\ StringGeq(rows[2].utc_datetime, rows[1].utc_datetime)
    /\ InList(rows[1], sorted) /\ InList(rows[2], sorted)

----------------------------------------------------------------------------
(* CreatePage properties, under SpecCreate *)

\* The positions of the selected schema whose raw value is invalid
InvalidPositions ==
    {i \in DOMAIN selected.arguments :
       PositionError(selected.arguments[i], values[i]).err}

LowestInvalid == CHOOSE i \in InvalidPositions : \A j \in InvalidPositions : i <= j

HasPrefix(text, prefix) ==
    Len(prefix) <= Len(text) /\ SubSeq(text, 1, Len(prefix)) = prefix

\* C4: after onCreate ran with an invalid raw value at some position, no
\* POST /api/create is in flight and the message shown is the one error of
\* the lowest invalid position, labelled with that position's label.
C4_FirstInvalidReported ==
    (lastEvent = "onCreate" /\ InvalidPositions # {}) =>
        /\ ~createReq.sent
        /\ ~loading
        /\ serverMsg = Danger(PositionError(selected.arguments[LowestInvalid],
                                            values[LowestInvalid]).text)
        /\ HasPrefix(serverMsg.text, selected.arguments[LowestInvalid].label)

\* C4 witness: onCreate ran with two invalid positions whose errors differ.
C4_Witness ==
    /\ lastEvent = "onCreate"
    /\ \E i, j \in InvalidPositions :
         /\ i < j
         /\ PositionError(selected.arguments[i], values[i])
              # PositionError(selected.arguments[j], values[j])

\* The raw value converts to a finite number (the empty string does not)
ConvertsToFinite(v) == ~(v.t = "string" /\ v.s = <<>>) /\ Number(v).k = "fin"

\* C5 as stated: a raw value at a FLOAT position is accepted iff it converts
\* to a finite number, and at an INTEGER position iff it converts to a
\* finite number with zero fractional part.
C5_NumericAcceptedIffFinite ==
    hasSelected =>
      \A i \in DOMAIN selected.arguments :
        LET spec == selected.arguments[i]
            ok   == ~PositionError(spec, values[i]).err
        IN  /\ spec.type = "FLOAT" => (ok <=> ConvertsToFinite(values[i]))
            /\ spec.type = "INTEGER" =>
                 (ok <=> (ConvertsToFinite(values[i]) /\ Number(values[i]).e = 0))

\* C7 as stated, for onCreate: whenever a create did not succeed (onCreate
\* returned without a POST, the response had ok = false, or the transport
\* failed), a non-empty danger message is shown and no navigation happened.
C7_FailureSetsMessage ==
    ((lastEvent = "onCreate" /\ ~createReq.sent)
       \/ lastEvent \in {"createNotOk", "createThrew"}) =>
        /\ serverMsg.variant = "danger"
        /\ serverMsg.text # <<>>
        /\ navTo = <<>>

\* The value at position i was carried over from a control of another kind
\* and is of the wrong type for the kind now at i
Mismatch(i) ==
    LET kind == selected.arguments[i].type
    IN  \/ origin[i] = "BOOLEAN" /\ kind \in {"INTEGER", "FLOAT"}
        \/ /\ origin[i] = "TEXT" /\ kind = "DATETIME"
           /\ ~IsLocalIso(String(values[i]))

\* C9 as stated: values has the selected schema's argument count, and a
\* carried-over value that mismatches the kind now at its position is
\* rejected by clientValidate, so that onCreate issues no request with it.
C9_CarriedMismatchRejected ==
    hasSelected =>
      /\ Len(values) = Len(selected.arguments)
      /\ \A i \in DOMAIN selected.arguments :
           Mismatch(i) =>
             /\ PositionError(selected.arguments[i], values[i]).err
             /\ lastEvent = "onCreate" => ~createReq.sent

----------------------------------------------------------------------------
(* InfoPage properties, under SpecInfo *)

\* C6: a step that issues a delete request is the confirm action taken with
\* the dialog open; the dialog opens only by the Delete action; a failed
\* delete response leaves the dialog as it is and shows a message, and the
\* confirm action can then be taken again.
C6_DeleteNeedsConfirmation ==
    /\ [][Len(delReqs') > Len(delReqs) =>
            (showDel /\ Rendered /\ lastEvent' = "doDelete")]_vars
    /\ [][(showDel' /\ ~showDel) => (Rendered /\ lastEvent' = "clickDelete")]_vars
    /\ [][(lastEvent' \in {"deleteNotOk", "deleteThrew"} /\ Len(delReqs') < Len(delReqs)) =>
            (showDel' = showDel /\ delErr' # <<>>)]_vars
    /\ []((lastEvent \in {"deleteNotOk", "deleteThrew"} /\ ModalVisible
             /\ Len(delReqs) < MaxInFlight) => ENABLED DoDelete)

\* C6 witness: a delete response with ok = false has landed and the dialog
\* is still open, showing the message.
C6_Witness ==
    /\ lastEvent = "deleteNotOk"
    /\ ModalVisible
    /\ delErr # <<>>

\* C8 as stated: once every /api/info response has landed, the page shows
\* what the response that completed last determines: its notification when
\* it succeeded, its error when it failed.
C8_LastCompletedWins ==
    (infoReqs = <<>> /\ lastLanded.landed /\ uuid # <<>>) =>
        IF lastLanded.ok
        THEN err = <<>> /\ data = InfoResponse(lastLanded.uuid)
        ELSE err = lastLanded.msg

\* C10 as stated: a delete request issued while a notification is displayed
\* names the uuid of that notification.
C10_DeleteTargetsDisplayed ==
    (lastEvent = "doDelete" /\ data.loaded) =>
        delReqs[Len(delReqs)] = data.uuid

====
